---- MODULE Spec2Model ----
(***************************************************************************)
(* The heuristic ATS scoring engine of services/ats_scorer.py (ATSScorer). *)
(*                                                                         *)
(* A text is a sequence of characters; a character is a one-character      *)
(* string, and the eight bullet glyphs of the bullet_points pattern are    *)
(* written by their code points ("U+2022", ...).  A Python dict is an      *)
(* insertion-ordered sequence of <<key, value>> pairs with distinct keys.  *)
(* The regular expressions of format_indicators are modelled by matchers   *)
(* that decide, character by character, whether some substring of the      *)
(* text belongs to the pattern's language, which is what re.search's       *)
(* truth value is.                                                         *)
(***************************************************************************)
EXTENDS Integers, Sequences, FiniteSets, TLC

VARIABLES
    section_patterns,   \* self.section_patterns
    tech_keywords,      \* self.tech_keywords
    format_indicators,  \* self.format_indicators
    text,               \* the text argument of analyze_resume
    pc,                 \* "input": call pending; "done": analyze_resume returned;
                        \* "args" / "suggested" / "scored": direct calls of the helpers
    section_scores,     \* dict section -> score
    keywords_found,
    format_score,
    sections_detected,
    overall_score,
    candidates,         \* generate_suggestions' local list before the final slice
    suggestions,        \* the list generate_suggestions returns
    history,            \* the << text, result >> pairs of the calls that returned earlier
    request,            \* the upload_resume requests being served
    uploads,            \* the uploads directory: filename -> inode (0: no such file)
    inodes,             \* inode -> the bytes of the file
    job,                \* the compile_resume requests being served
    tmp                 \* temporary directory -> the names of the files in it

vars == << section_patterns, tech_keywords, format_indicators, text, pc,
           section_scores, keywords_found, format_score, sections_detected,
           overall_score, candidates, suggestions, history,
           request, uploads, inodes, job, tmp >>

scorer_vars == << section_patterns, tech_keywords, format_indicators, text, pc,
                  section_scores, keywords_found, format_score, sections_detected,
                  overall_score, candidates, suggestions, history >>

upload_vars == << request, uploads, inodes >>

compile_vars == << job, tmp >>

catalog == << section_patterns, tech_keywords, format_indicators >>

----------------------------------------------------------------------------
(* Characters and character classes (Python str patterns, ASCII range).    *)

UpperLetters ==
    { "A","B","C","D","E","F","G","H","I","J","K","L","M",
      "N","O","P","Q","R","S","T","U","V","W","X","Y","Z" }

LowerLetters ==
    { "a","b","c","d","e","f","g","h","i","j","k","l","m",
      "n","o","p","q","r","s","t","u","v","w","x","y","z" }

Digits == { "0","1","2","3","4","5","6","7","8","9" }

\* \s, and the separators of str.split()
Whitespace == { " ", "\t", "\n", "\r", "\f" }

\* \w
WordChars == UpperLetters \cup LowerLetters \cup Digits \cup { "_" }

\* [•·▪▫▸▹‣⁃]
BulletGlyphs ==
    { "U+2022", "U+00B7", "U+25AA", "U+25AB", "U+25B8", "U+25B9", "U+2023", "U+2043" }

\* [A-Za-z0-9._%+-]
EmailLocalChars == UpperLetters \cup LowerLetters \cup Digits \cup { ".", "_", "%", "+", "-" }

\* [A-Za-z0-9.-]
EmailDomainChars == UpperLetters \cup LowerLetters \cup Digits \cup { ".", "-" }

\* [A-Z|a-z]
EmailTldChars == UpperLetters \cup LowerLetters \cup { "|" }

LowerOf ==
    ("A" :> "a") @@ ("B" :> "b") @@ ("C" :> "c") @@ ("D" :> "d") @@ ("E" :> "e") @@
    ("F" :> "f") @@ ("G" :> "g") @@ ("H" :> "h") @@ ("I" :> "i") @@ ("J" :> "j") @@
    ("K" :> "k") @@ ("L" :> "l") @@ ("M" :> "m") @@ ("N" :> "n") @@ ("O" :> "o") @@
    ("P" :> "p") @@ ("Q" :> "q") @@ ("R" :> "r") @@ ("S" :> "s") @@ ("T" :> "t") @@
    ("U" :> "u") @@ ("V" :> "v") @@ ("W" :> "w") @@ ("X" :> "x") @@ ("Y" :> "y") @@
    ("Z" :> "z")

\* str.lower()  (SubSeq makes TLC hold the result as a tuple, not as a lambda)
Lower(t) ==
    SubSeq([ i \in 1..Len(t) |-> IF t[i] \in UpperLetters THEN LowerOf[t[i]] ELSE t[i] ],
           1, Len(t))

\* `p in t` for strings, and re.search(p, t) for a pattern p without metacharacters
Contains(t, p) ==
    \/ p = << >>
    \/ \E i \in 1..(Len(t) - Len(p) + 1) :
         t[i] = p[1] /\ \A j \in 2..Len(p) : t[i + j - 1] = p[j]

\* len(t.split()): the number of maximal runs of non-whitespace characters
WordCount(t) ==
    Cardinality({ i \in 1..Len(t) :
                    /\ t[i] \notin Whitespace
                    /\ (i = 1 \/ t[i - 1] \in Whitespace) })

Min(a, b) == IF a <= b THEN a ELSE b

----------------------------------------------------------------------------
(* Regular-expression matching.  Positions are 1-based.                    *)

InClass(t, i, S) == i >= 1 /\ i <= Len(t) /\ t[i] \in S

\* every character of t[i..j] is in S (i <= j + 1)
AllIn(t, i, j, S) == i >= 1 /\ j <= Len(t) /\ \A k \in i..j : t[k] \in S

\* \d{n} at position i
DigitsAt(t, i, n) == AllIn(t, i, i + n - 1, Digits)

\* \b between t[i-1] and t[i]: exactly one side is a word character
WordBoundary(t, i) == InClass(t, i - 1, WordChars) # InClass(t, i, WordChars)

\* [•·▪▫▸▹‣⁃]|\*\s|\-\s|\d+\.\s
SearchBulletPoints(t) ==
    \E i \in 1..Len(t) :
        \/ t[i] \in BulletGlyphs
        \/ t[i] = "*" /\ InClass(t, i + 1, Whitespace)
        \/ t[i] = "-" /\ InClass(t, i + 1, Whitespace)
        \/ /\ t[i] \in Digits
           /\ \E j \in i..Len(t) :
                /\ AllIn(t, i, j, Digits)
                /\ InClass(t, j + 1, {"."})
                /\ InClass(t, j + 2, Whitespace)

\* \b\d{4}\b|\b\d{1,2}/\d{4}\b|\b\w+\s\d{4}\b
SearchDates(t) ==
    \/ \E i \in 1..Len(t) :
         WordBoundary(t, i) /\ DigitsAt(t, i, 4) /\ WordBoundary(t, i + 4)
    \/ \E i \in 1..Len(t) : \E n \in 1..2 :
         /\ WordBoundary(t, i)
         /\ DigitsAt(t, i, n)
         /\ InClass(t, i + n, {"/"})
         /\ DigitsAt(t, i + n + 1, 4)
         /\ WordBoundary(t, i + n + 5)
    \/ \E j \in 1..Len(t) :            \* j: the last character of \w+
         /\ InClass(t, j + 1, Whitespace)
         /\ DigitsAt(t, j + 2, 4)
         /\ WordBoundary(t, j + 6)
         /\ \E i \in 1..j : WordBoundary(t, i) /\ AllIn(t, i, j, WordChars)

\* \b[A-Za-z0-9._%+-]+@[A-Za-z0-9.-]+\.[A-Z|a-z]{2,}\b
SearchEmail(t) ==
    \E a \in 1..Len(t) :               \* a: the position of @
        /\ t[a] = "@"
        /\ \E i \in 1..(a - 1) :
             WordBoundary(t, i) /\ AllIn(t, i, a - 1, EmailLocalChars)
        /\ \E d \in (a + 2)..Len(t) :  \* d: the position of \.
             /\ t[d] = "."
             /\ AllIn(t, a + 1, d - 1, EmailDomainChars)
             /\ \E e \in (d + 2)..Len(t) :
                  AllIn(t, d + 1, e, EmailTldChars) /\ WordBoundary(t, e + 1)

\* [-.]? at position i: the number of characters it takes
OptionalAt(t, i, S) == { 0 } \cup (IF InClass(t, i, S) THEN { 1 } ELSE {})

\* \b\d{3}[-.]?\d{3}[-.]?\d{4}\b|\b\(\d{3}\)\s?\d{3}[-.]?\d{4}\b
SearchPhone(t) ==
    \/ \E i \in 1..Len(t) :
         /\ WordBoundary(t, i)
         /\ DigitsAt(t, i, 3)
         /\ \E s1 \in OptionalAt(t, i + 3, {"-", "."}) :
              /\ DigitsAt(t, i + 3 + s1, 3)
              /\ \E s2 \in OptionalAt(t, i + 6 + s1, {"-", "."}) :
                   /\ DigitsAt(t, i + 6 + s1 + s2, 4)
                   /\ WordBoundary(t, i + 10 + s1 + s2)
    \/ \E i \in 1..Len(t) :
         /\ WordBoundary(t, i)
         /\ t[i] = "("
         /\ DigitsAt(t, i + 1, 3)
         /\ InClass(t, i + 4, {")"})
         /\ \E s1 \in OptionalAt(t, i + 5, Whitespace) :
              /\ DigitsAt(t, i + 5 + s1, 3)
              /\ \E s2 \in OptionalAt(t, i + 8 + s1, {"-", "."}) :
                   /\ DigitsAt(t, i + 8 + s1 + s2, 4)
                   /\ WordBoundary(t, i + 12 + s1 + s2)

\* http[s]?://(?:[a-zA-Z]|[0-9]|[$-_@.&+]|[!*\\(\\),]|(?:%[0-9a-fA-F][0-9a-fA-F]))+
\* The scorer never searches for it.
UrlsRe == "urls"
BulletPointsRe == "bullet_points"
DatesRe == "dates"
EmailRe == "email"
PhoneRe == "phone"

\* re.search(pattern, t) is not None, for the patterns of format_indicators
re_search(pattern, t) ==
    CASE pattern = BulletPointsRe -> SearchBulletPoints(t)
      [] pattern = DatesRe        -> SearchDates(t)
      [] pattern = EmailRe        -> SearchEmail(t)
      [] pattern = PhoneRe        -> SearchPhone(t)

----------------------------------------------------------------------------
(* Python dicts, as insertion-ordered sequences of <<key, value>> pairs.   *)

Keys(d) == [ i \in 1..Len(d) |-> d[i][1] ]

Values(d) == [ i \in 1..Len(d) |-> d[i][2] ]

HasKey(d, k) == \E i \in 1..Len(d) : d[i][1] = k

\* d[k]
Get(d, k) == d[CHOOSE i \in 1..Len(d) : d[i][1] = k][2]

\* d[k] = v
Put(d, k, v) ==
    IF HasKey(d, k)
    THEN [ i \in 1..Len(d) |-> IF d[i][1] = k THEN << k, v >> ELSE d[i] ]
    ELSE Append(d, << k, v >>)

RECURSIVE SumSeq(_)
\* sum(s)
SumSeq(s) == IF s = << >> THEN 0 ELSE s[1] + SumSeq(Tail(s))

\* [w.lower() for w in words]
LowerAll(words) == SubSeq([ i \in 1..Len(words) |-> Lower(words[i]) ], 1, Len(words))

\* sum(1 for w in words if w in t)
CountContained(words, t) == Cardinality({ i \in 1..Len(words) : Contains(t, words[i]) })

----------------------------------------------------------------------------
(* The pattern catalog built by ATSScorer.__init__.                        *)

InitSectionPatterns ==
  <<
    <<"contact_info", <<
        <<"e","m","a","i","l">>,
        <<"p","h","o","n","e">>,
        <<"l","i","n","k","e","d","i","n">>,
        <<"g","i","t","h","u","b">>,
        <<"a","d","d","r","e","s","s">> >> >>,
    <<"professional_summary", <<
        <<"s","u","m","m","a","r","y">>,
        <<"o","b","j","e","c","t","i","v","e">>,
        <<"p","r","o","f","i","l","e">>,
        <<"a","b","o","u","t">> >> >>,
    <<"experience", <<
        <<"e","x","p","e","r","i","e","n","c","e">>,
        <<"e","m","p","l","o","y","m","e","n","t">>,
        <<"w","o","r","k"," ","h","i","s","t","o","r","y">>,
        <<"c","a","r","e","e","r">> >> >>,
    <<"education", <<
        <<"e","d","u","c","a","t","i","o","n">>,
        <<"a","c","a","d","e","m","i","c">>,
        <<"d","e","g","r","e","e">>,
        <<"u","n","i","v","e","r","s","i","t","y">>,
        <<"c","o","l","l","e","g","e">> >> >>,
    <<"skills", <<
        <<"s","k","i","l","l","s">>,
        <<"t","e","c","h","n","i","c","a","l"," ","s","k","i","l","l","s">>,
        <<"t","e","c","h","n","o","l","o","g","i","e","s">>,
        <<"p","r","o","g","r","a","m","m","i","n","g">> >> >>,
    <<"projects", <<
        <<"p","r","o","j","e","c","t","s">>,
        <<"p","o","r","t","f","o","l","i","o">>,
        <<"w","o","r","k"," ","s","a","m","p","l","e","s">> >> >>,
    <<"certifications", <<
        <<"c","e","r","t","i","f","i","c","a","t","i","o","n","s">>,
        <<"l","i","c","e","n","s","e","s">>,
        <<"c","e","r","t","i","f","i","c","a","t","e","s">> >> >> >>

InitTechKeywords ==
  <<
    <<"p","y","t","h","o","n">>,
    <<"j","a","v","a">>,
    <<"j","a","v","a","s","c","r","i","p","t">>,
    <<"r","e","a","c","t">>,
    <<"n","o","d","e",".","j","s">>,
    <<"s","q","l">>,
    <<"h","t","m","l">>,
    <<"c","s","s">>,
    <<"g","i","t">>,
    <<"g","i","t","h","u","b">>,
    <<"d","o","c","k","e","r">>,
    <<"k","u","b","e","r","n","e","t","e","s">>,
    <<"a","w","s">>,
    <<"a","z","u","r","e">>,
    <<"m","o","n","g","o","d","b">>,
    <<"p","o","s","t","g","r","e","s","q","l">>,
    <<"m","y","s","q","l">>,
    <<"m","a","c","h","i","n","e"," ","l","e","a","r","n","i","n","g">>,
    <<"d","a","t","a"," ","s","c","i","e","n","c","e">>,
    <<"a","p","i">>,
    <<"r","e","s","t">>,
    <<"a","g","i","l","e">>,
    <<"s","c","r","u","m">>,
    <<"c","i","/","c","d">>,
    <<"j","e","n","k","i","n","s">>,
    <<"l","i","n","u","x">> >>

action_verbs ==
  <<
    <<"d","e","v","e","l","o","p","e","d">>,
    <<"i","m","p","l","e","m","e","n","t","e","d">>,
    <<"m","a","n","a","g","e","d">>,
    <<"c","r","e","a","t","e","d">>,
    <<"d","e","s","i","g","n","e","d">>,
    <<"b","u","i","l","t">>,
    <<"l","e","d">>,
    <<"o","p","t","i","m","i","z","e","d">> >>

education_keywords ==
  <<
    <<"d","e","g","r","e","e">>,
    <<"b","a","c","h","e","l","o","r">>,
    <<"m","a","s","t","e","r">>,
    <<"p","h","d">>,
    <<"u","n","i","v","e","r","s","i","t","y">>,
    <<"c","o","l","l","e","g","e">>,
    <<"g","p","a">> >>

InitFormatIndicators ==
    [ bullet_points |-> BulletPointsRe,
      dates         |-> DatesRe,
      email         |-> EmailRe,
      phone         |-> PhoneRe,
      urls          |-> UrlsRe ]

SectionNames == Keys(InitSectionPatterns)

----------------------------------------------------------------------------
(* The section analyzer.                                                   *)

\* the words 'linkedin' and 'github' of score_contact_info
LinkedinWord == <<"l","i","n","k","e","d","i","n">>

GithubWord == <<"g","i","t","h","u","b">>

score_contact_info(t) ==
      (IF re_search(format_indicators.email, t) THEN 10 ELSE 0)
    + (IF re_search(format_indicators.phone, t) THEN 10 ELSE 0)
    + (IF Contains(Lower(t), LinkedinWord) THEN 10 ELSE 0)
    + (IF Contains(Lower(t), GithubWord) THEN 10 ELSE 0)

score_skills_section(t) ==
    LET tech_count == CountContained(LowerAll(tech_keywords), Lower(t))
    IN  Min(tech_count * 5, 40)

\* mutant of score_experience_section: the action-verb credit is not capped
score_experience_section_NoVerbCap(t) ==
    LET verb_count == CountContained(action_verbs, Lower(t))
    IN    (IF re_search(format_indicators.bullet_points, t) THEN 15 ELSE 0)
        + (IF re_search(format_indicators.dates, t) THEN 15 ELSE 0)
        + verb_count * 2

score_experience_section(t) ==
    LET verb_count == CountContained(action_verbs, Lower(t))
    IN    (IF re_search(format_indicators.bullet_points, t) THEN 15 ELSE 0)
        + (IF re_search(format_indicators.dates, t) THEN 15 ELSE 0)
        + Min(verb_count * 2, 10)

score_education_section(t) ==
    LET edu_count == CountContained(LowerAll(education_keywords), Lower(t))
    IN  Min(edu_count * 5, 40)

\* mutant of section_score: the quality bonus is granted without the section
\* having been detected
section_score_BonusUndetected(section, patterns, t, text_lower) ==
    LET section_found == \E k \in 1..Len(patterns) : Contains(text_lower, patterns[k])
        bonus == CASE section = "contact_info" -> score_contact_info(t)
                   [] section = "skills"       -> score_skills_section(t)
                   [] section = "experience"   -> score_experience_section(t)
                   [] section = "education"    -> score_education_section(t)
                   [] OTHER                    -> 0
    IN  IF section_found THEN Min(60 + bonus, 100) ELSE bonus

\* one iteration of analyze_sections' loop: the score of one section
section_score(section, patterns, t, text_lower) ==
    LET section_found == \E k \in 1..Len(patterns) : Contains(text_lower, patterns[k])
        bonus == CASE section = "contact_info" -> score_contact_info(t)
                   [] section = "skills"       -> score_skills_section(t)
                   [] section = "experience"   -> score_experience_section(t)
                   [] section = "education"    -> score_education_section(t)
                   [] OTHER                    -> 0
    IN  IF section_found THEN Min(60 + bonus, 100) ELSE 0

RECURSIVE analyze_sections_loop(_, _, _, _)
analyze_sections_loop(items, t, text_lower, scores) ==
    IF items = << >> THEN scores
    ELSE analyze_sections_loop(
             Tail(items), t, text_lower,
             Put(scores, items[1][1], section_score(items[1][1], items[1][2], t, text_lower)))

analyze_sections(t) == analyze_sections_loop(section_patterns, t, Lower(t), << >>)

----------------------------------------------------------------------------
(* The keyword counter and the format analyzer.                            *)

\* mutant of count_keywords: the text is not lowercased
count_keywords_CaseSensitive(t) == CountContained(LowerAll(tech_keywords), t)

count_keywords(t) ==
    CountContained(LowerAll(tech_keywords), Lower(t))

\* the bounds of the length bonus
MinWords == 200

MaxWords == 800

\* mutant of analyze_format: the length bonus has no lower bound
analyze_format_NoMinWords(t) ==
    LET word_count == WordCount(t)
        score ==   (IF re_search(format_indicators.bullet_points, t) THEN 25 ELSE 0)
                 + (IF re_search(format_indicators.dates, t) THEN 25 ELSE 0)
                 + (IF re_search(format_indicators.email, t) THEN 20 ELSE 0)
                 + (IF re_search(format_indicators.phone, t) THEN 20 ELSE 0)
                 + (IF word_count <= MaxWords THEN 10 ELSE 0)
    IN  Min(score, 100)

\* mutant of analyze_format: the upper bound of the length bonus is exclusive
analyze_format_ExclusiveMax(t) ==
    LET word_count == WordCount(t)
        score ==   (IF re_search(format_indicators.bullet_points, t) THEN 25 ELSE 0)
                 + (IF re_search(format_indicators.dates, t) THEN 25 ELSE 0)
                 + (IF re_search(format_indicators.email, t) THEN 20 ELSE 0)
                 + (IF re_search(format_indicators.phone, t) THEN 20 ELSE 0)
                 + (IF MinWords <= word_count /\ word_count < MaxWords THEN 10 ELSE 0)
    IN  Min(score, 100)

analyze_format(t) ==
    LET word_count == WordCount(t)
        score ==   (IF re_search(format_indicators.bullet_points, t) THEN 25 ELSE 0)
                 + (IF re_search(format_indicators.dates, t) THEN 25 ELSE 0)
                 + (IF re_search(format_indicators.email, t) THEN 20 ELSE 0)
                 + (IF re_search(format_indicators.phone, t) THEN 20 ELSE 0)
                 + (IF MinWords <= word_count /\ word_count <= MaxWords THEN 10 ELSE 0)
    IN  Min(score, 100)

----------------------------------------------------------------------------
(* The score aggregator.  The code computes in doubles; the model computes *)
(* the same expression in exact rationals << numerator, denominator >>.    *)
(* For every map of 1 to 8 scores in 0..100, keyword score in 0..100 and   *)
(* format score in 0..100 the double result and the exact result truncate  *)
(* to the same integer.                                                    *)

RatOfInt(n) == << n, 1 >>

RatAdd(x, y) == << x[1] * y[2] + y[1] * x[2], x[2] * y[2] >>

RatMul(x, y) == << x[1] * y[1], x[2] * y[2] >>

RatDiv(x, y) == << x[1] * y[2], x[2] * y[1] >>

\* int(x): truncation toward zero (denominators are positive)
RatTrunc(x) == IF x[1] >= 0 THEN x[1] \div x[2] ELSE -((-x[1]) \div x[2])

\* the literals 0.5, 0.3 and 0.2
SectionWeight == << 5, 10 >>

KeywordWeight == << 3, 10 >>

FormatWeight == << 2, 10 >>

\* mutant of calculate_overall_score: the average divides by a hard-coded 7
calculate_overall_score_Fixed7(scores, kw_found, fmt_score) ==
    LET section_avg == RatDiv(RatOfInt(SumSeq(Values(scores))), RatOfInt(7))
        keyword_score == Min(kw_found * 5, 100)
        overall == RatAdd(RatAdd(RatMul(section_avg, SectionWeight),
                                 RatMul(RatOfInt(keyword_score), KeywordWeight)),
                          RatMul(RatOfInt(fmt_score), FormatWeight))
    IN  RatTrunc(overall)

calculate_overall_score(scores, kw_found, fmt_score) ==
    LET section_avg == RatDiv(RatOfInt(SumSeq(Values(scores))), RatOfInt(Len(scores)))
        keyword_score == Min(kw_found * 5, 100)
        overall == RatAdd(RatAdd(RatMul(section_avg, SectionWeight),
                                 RatMul(RatOfInt(keyword_score), KeywordWeight)),
                          RatMul(RatOfInt(fmt_score), FormatWeight))
    IN  RatTrunc(overall)

----------------------------------------------------------------------------
(* The suggestion generator.                                               *)

\* section.replace('_', ' ')
replace_underscore(section) ==
    CASE section = "contact_info"         -> "contact info"
      [] section = "professional_summary" -> "professional summary"
      [] section = "experience"           -> "experience"
      [] section = "education"            -> "education"
      [] section = "skills"               -> "skills"
      [] section = "projects"             -> "projects"
      [] section = "certifications"       -> "certifications"

\* section.replace('_', ' ').title()
title(section) ==
    CASE section = "contact_info"         -> "Contact Info"
      [] section = "professional_summary" -> "Professional Summary"
      [] section = "experience"           -> "Experience"
      [] section = "education"            -> "Education"
      [] section = "skills"               -> "Skills"
      [] section = "projects"             -> "Projects"
      [] section = "certifications"       -> "Certifications"

Suggestion(t, d, p) == [ title |-> t, description |-> d, priority |-> p ]

AddSection(section) ==
    Suggestion("Add " \o title(section) \o " Section",
               "Your resume is missing a " \o replace_underscore(section)
                   \o " section. This is essential for ATS systems.",
               "high")

ImproveSection(section) ==
    Suggestion("Improve " \o title(section) \o " Section",
               "Your " \o replace_underscore(section)
                   \o " section could be enhanced with more relevant details and better formatting.",
               "medium")

AddKeywords ==
    Suggestion("Add More Technical Keywords",
               "Include more relevant technical skills and keywords that match the job descriptions you're targeting.",
               "high")

ImproveFormatting ==
    Suggestion("Improve Resume Formatting",
               "Use bullet points, consistent date formats, and clear section headers to improve ATS readability.",
               "medium")

QuantifyAchievements ==
    Suggestion("Quantify Your Achievements",
               "Add numbers and metrics to your accomplishments (e.g., 'Improved performance by 25%').",
               "medium")

TailorApplication ==
    Suggestion("Tailor for Each Application",
               "Customize your resume keywords and content for each job application to improve ATS matching.",
               "low")

\* the limit of the final slice suggestions[:8]
MaxSuggestions == 8

RECURSIVE section_suggestions_Below60(_)
\* the loop with "Improve" suggested only below 60
section_suggestions_Below60(items) ==
    IF items = << >> THEN << >>
    ELSE LET section == items[1][1]
             score == items[1][2]
             here == IF score = 0 THEN << AddSection(section) >>
                     ELSE IF score < 60 THEN << ImproveSection(section) >>
                     ELSE << >>
         IN  here \o section_suggestions_Below60(Tail(items))

RECURSIVE section_suggestions(_)
\* the loop over section_scores.items()
section_suggestions(items) ==
    IF items = << >> THEN << >>
    ELSE LET section == items[1][1]
             score == items[1][2]
             here == IF score = 0 THEN << AddSection(section) >>
                     ELSE IF score < 70 THEN << ImproveSection(section) >>
                     ELSE << >>
         IN  here \o section_suggestions(Tail(items))

\* mutant of suggestion_candidates: the format suggestion is appended before the
\* keyword suggestion
suggestion_candidates_FormatFirst(scores, kw_found, fmt_score) ==
       section_suggestions(scores)
    \o (IF fmt_score < 60 THEN << ImproveFormatting >> ELSE << >>)
    \o (IF kw_found < 5 THEN << AddKeywords >> ELSE << >>)
    \o << QuantifyAchievements, TailorApplication >>

\* the list generate_suggestions has built when it reaches its return statement
suggestion_candidates(scores, kw_found, fmt_score) ==
       section_suggestions(scores)
    \o (IF kw_found < 5 THEN << AddKeywords >> ELSE << >>)
    \o (IF fmt_score < 60 THEN << ImproveFormatting >> ELSE << >>)
    \o << QuantifyAchievements, TailorApplication >>

\* s[:n]
Slice(s, n) == SubSeq(s, 1, Min(n, Len(s)))

\* mutant of generate_suggestions: the list is returned without the slice
generate_suggestions_NoLimit(scores, kw_found, fmt_score) ==
    suggestion_candidates(scores, kw_found, fmt_score)

\* mutant of generate_suggestions: the last 8 entries are kept (suggestions[-8:])
generate_suggestions_Last8(scores, kw_found, fmt_score) ==
    LET c == suggestion_candidates(scores, kw_found, fmt_score)
    IN  SubSeq(c, Len(c) - Min(MaxSuggestions, Len(c)) + 1, Len(c))

\* mutant of generate_suggestions: the slice keeps 7 entries
generate_suggestions_Limit7(scores, kw_found, fmt_score) ==
    Slice(suggestion_candidates(scores, kw_found, fmt_score), MaxSuggestions - 1)

generate_suggestions(scores, kw_found, fmt_score) ==
    Slice(suggestion_candidates(scores, kw_found, fmt_score), MaxSuggestions)

----------------------------------------------------------------------------
(* Input texts: concatenations of at most MaxFrags fragments, and texts    *)
(* padded with filler words to the word counts around the length bonus.    *)

\* 'a@b.co'
F_Email ==
    <<"a","@","b",".","c","o">>

\* 'Python, Java, React, react, PYTHON'
F_Keywords ==
    <<"P","y","t","h","o","n",","," ","J","a","v","a",","," ","R","e","a","c","t",","," ","r","e","a","c","t",","," ","P","Y","T","H","O","N">>

\* 'Email: me@x.com Phone: 123.456.7890 LinkedIn GitHub '
F_Contact ==
    <<"E","m","a","i","l",":"," ","m","e","@","x",".","c","o","m"," ","P","h","o","n","e",":"," ","1","2","3",".","4","5","6",".","7","8","9","0"," ","L","i","n","k","e","d","I","n"," ","G","i","t","H","u","b"," ">>

\* '123-456-7890'
F_Phone ==
    <<"1","2","3","-","4","5","6","-","7","8","9","0">>

\* '(123) 456-7890'
F_PhoneParen ==
    <<"(","1","2","3",")"," ","4","5","6","-","7","8","9","0">>

\* ' '
F_Space ==
    <<" ">>

\* 'x'
F_Word ==
    <<"x">>

\* '• '
F_Bullet ==
    <<"U+2022"," ">>

\* '12. '
F_Numbered ==
    <<"1","2","."," ">>

\* '2022'
F_Year ==
    <<"2","0","2","2">>

\* 'Summary '
F_Summary ==
    <<"S","u","m","m","a","r","y"," ">>

\* 'PROJECTS\n'
F_Projects ==
    <<"P","R","O","J","E","C","T","S","\n">>

\* 'Technical Skills: docker, kubernetes, aws, azure, sql, html, css, linux '
F_Skills ==
    <<"T","e","c","h","n","i","c","a","l"," ","S","k","i","l","l","s",":"," ","d","o","c","k","e","r",","," ","k","u","b","e","r","n","e","t","e","s",","," ","a","w","s",","," ","a","z","u","r","e",","," ","s","q","l",","," ","h","t","m","l",","," ","c","s","s",","," ","l","i","n","u","x"," ">>

\* 'Work History\n* Developed, implemented, managed and designed APIs; led a team; built CI/CD '
F_Experience ==
    <<"W","o","r","k"," ","H","i","s","t","o","r","y","\n","*"," ","D","e","v","e","l","o","p","e","d",","," ","i","m","p","l","e","m","e","n","t","e","d",","," ","m","a","n","a","g","e","d"," ","a","n","d"," ","d","e","s","i","g","n","e","d"," ","A","P","I","s",";"," ","l","e","d"," ","a"," ","t","e","a","m",";"," ","b","u","i","l","t"," ","C","I","/","C","D"," ">>

\* 'Education: Bachelor degree, University, GPA 9; Certificates '
F_Education ==
    <<"E","d","u","c","a","t","i","o","n",":"," ","B","a","c","h","e","l","o","r"," ","d","e","g","r","e","e",","," ","U","n","i","v","e","r","s","i","t","y",","," ","G","P","A"," ","9",";"," ","C","e","r","t","i","f","i","c","a","t","e","s"," ">>

\* 'I have experience with Python and Java. Education: B.Tech from University. email: me@x.com phone: 123-456-7890 • Built and led projects in 2022.'
F_Golden ==
    <<"I"," ","h","a","v","e"," ","e","x","p","e","r","i","e","n","c","e"," ","w","i","t","h"," ","P","y","t","h","o","n"," ","a","n","d"," ","J","a","v","a","."," ","E","d","u","c","a","t","i","o","n",":"," ","B",".","T","e","c","h"," ","f","r","o","m"," ","U","n","i","v","e","r","s","i","t","y","."," ","e","m","a","i","l",":"," ","m","e","@","x",".","c","o","m"," ","p","h","o","n","e",":"," ","1","2","3","-","4","5","6","-","7","8","9","0"," ","U+2022"," ","B","u","i","l","t"," ","a","n","d"," ","l","e","d"," ","p","r","o","j","e","c","t","s"," ","i","n"," ","2","0","2","2",".">>

\* 'Phone '
F_PhoneLabel ==
    <<"P","h","o","n","e"," ">>

\* 'Email: a@b.co Phone: 123-456-7890 Skills: python, sql, git, docker, aws Experience: • built 2022 Education: bachelor degree '
F_Full ==
    <<"E","m","a","i","l",":"," ","a","@","b",".","c","o"," ","P","h","o","n","e",":"," ","1","2","3","-","4","5","6","-","7","8","9","0"," ","S","k","i","l","l","s",":"," ","p","y","t","h","o","n",","," ","s","q","l",","," ","g","i","t",","," ","d","o","c","k","e","r",","," ","a","w","s"," ","E","x","p","e","r","i","e","n","c","e",":"," ","U+2022"," ","b","u","i","l","t"," ","2","0","2","2"," ","E","d","u","c","a","t","i","o","n",":"," ","b","a","c","h","e","l","o","r"," ","d","e","g","r","e","e"," ">>

Fragments ==
    { F_Email,
      F_Keywords,
      F_Contact,
      F_Phone,
      F_PhoneParen,
      F_PhoneLabel,
      F_Space,
      F_Word,
      F_Bullet,
      F_Numbered,
      F_Year,
      F_Summary,
      F_Projects,
      F_Skills,
      F_Experience,
      F_Education,
      F_Golden,
      F_Full }

MaxFrags == 2

RECURSIVE Concats(_)
Concats(n) ==
    IF n = 0 THEN { << >> }
    ELSE LET shorter == Concats(n - 1)
         IN  shorter \cup { p \o f : p \in shorter, f \in Fragments }

\* n filler words, each after a space
Filler(n) == [ i \in 1..(2 * n) |-> IF i % 2 = 1 THEN " " ELSE "w" ]

\* body followed by filler words up to a total of n words
PadTo(body, n) == body \o Filler(n - WordCount(body))

WordTargets == { MinWords - 1, MinWords, MaxWords, MaxWords + 1 }

PadBodies == { << >>, F_Email, F_Phone, F_Bullet, F_Year, F_Golden }

PaddedTexts == { PadTo(body, n) : body \in PadBodies, n \in WordTargets }

Inputs == Concats(MaxFrags) \cup PaddedTexts

----------------------------------------------------------------------------
(* analyze_resume called on a text.                                        *)

\* no request is being served
NoUploads ==
    /\ request = << >>
    /\ uploads = << >>
    /\ inodes = << >>

\* no compilation is being served
NoJobs ==
    /\ job = << >>
    /\ tmp = << >>

NoCall ==
    /\ section_scores = << >>
    /\ keywords_found = 0
    /\ format_score = 0
    /\ sections_detected = 0
    /\ overall_score = 0
    /\ candidates = << >>
    /\ suggestions = << >>

InitCatalog ==
    /\ section_patterns = InitSectionPatterns
    /\ tech_keywords = InitTechKeywords
    /\ format_indicators = InitFormatIndicators

Init ==
    /\ InitCatalog
    /\ text \in Inputs
    /\ pc = "input"
    /\ NoCall
    /\ history = { }
    /\ NoUploads
    /\ NoJobs

\* analyze_resume with a count_keywords that consumes the keyword list it scans
AnalyzeResume_ConsumingKeywords ==
    /\ pc = "input"
    /\ section_scores' = analyze_sections(text)
    /\ keywords_found' = count_keywords(text)
    /\ format_score' = analyze_format(text)
    /\ sections_detected' =
           Cardinality({ i \in 1..Len(section_scores') : section_scores'[i][2] > 0 })
    /\ overall_score' = calculate_overall_score(section_scores', keywords_found', format_score')
    /\ candidates' = suggestion_candidates(section_scores', keywords_found', format_score')
    /\ suggestions' = generate_suggestions(section_scores', keywords_found', format_score')
    /\ pc' = "done"
    /\ tech_keywords' = << >>
    /\ UNCHANGED << section_patterns, format_indicators, text, history, upload_vars, compile_vars >>

AnalyzeResume ==
    /\ pc = "input"
    /\ section_scores' = analyze_sections(text)
    /\ keywords_found' = count_keywords(text)
    /\ format_score' = analyze_format(text)
    /\ sections_detected' =
           Cardinality({ i \in 1..Len(section_scores') : section_scores'[i][2] > 0 })
    /\ overall_score' = calculate_overall_score(section_scores', keywords_found', format_score')
    /\ candidates' = suggestion_candidates(section_scores', keywords_found', format_score')
    /\ suggestions' = generate_suggestions(section_scores', keywords_found', format_score')
    /\ pc' = "done"
    /\ UNCHANGED << catalog, text, history, upload_vars, compile_vars >>

Next == AnalyzeResume

Spec == Init /\ [][Next]_vars

----------------------------------------------------------------------------
(* analyze_resume called again and again on the one ATSScorer instance.    *)

\* the fields of the ResumeAnalysis the call returned (filename is passed through)
Result ==
    [ overall_score     |-> overall_score,
      section_scores    |-> section_scores,
      keywords_found    |-> keywords_found,
      sections_detected |-> sections_detected,
      format_score      |-> format_score,
      suggestions       |-> suggestions ]

CallTexts == { << >>, F_Email, F_Keywords, F_PhoneParen, F_Golden, F_Full }

InitCalls ==
    /\ InitCatalog
    /\ text \in CallTexts
    /\ pc = "input"
    /\ NoCall
    /\ history = { }
    /\ NoUploads
    /\ NoJobs

\* the caller keeps the result and calls analyze_resume with the next text
CallAgain ==
    /\ pc = "done"
    /\ history' = history \cup { << text, Result >> }
    /\ text' \in CallTexts
    /\ pc' = "input"
    /\ section_scores' = << >>
    /\ keywords_found' = 0
    /\ format_score' = 0
    /\ sections_detected' = 0
    /\ overall_score' = 0
    /\ candidates' = << >>
    /\ suggestions' = << >>
    /\ UNCHANGED << catalog, upload_vars, compile_vars >>

NextCalls == AnalyzeResume \/ CallAgain

SpecCalls == InitCalls /\ [][NextCalls]_vars

----------------------------------------------------------------------------
(* calculate_overall_score and generate_suggestions called directly on a   *)
(* section-score map, a keyword count and a format score.                  *)

\* section scores: absent, just below 70, and 70
ScoreLevels == { 0, 68, 70 }

\* keyword counts around the suggestion threshold 5 and the cap of keyword_score
KeywordLevels == { 0, 4, 5, 21 }

\* format scores around the suggestion threshold 60
FormatLevels == { 0, 55, 60, 100 }

\* more section scores, for the dicts of at most 3 entries
WideScoreLevels == { 0, 60, 62, 65, 68, 70, 85, 100 }

\* the dicts over the first n catalog sections, in catalog order, with scores in levels
PrefixMaps(n, levels) ==
    { [ i \in 1..n |-> << SectionNames[i], f[i] >> ] : f \in [ 1..n -> levels ] }

ScoreMaps ==
    UNION ( { PrefixMaps(n, ScoreLevels) : n \in 1..Len(SectionNames) }
            \cup { PrefixMaps(n, WideScoreLevels) : n \in 1..3 } )

InitPure ==
    /\ InitCatalog
    /\ text = << >>
    /\ pc = "args"
    /\ section_scores \in ScoreMaps
    /\ keywords_found \in KeywordLevels
    /\ format_score \in FormatLevels
    /\ sections_detected = 0
    /\ overall_score = 0
    /\ candidates = << >>
    /\ suggestions = << >>
    /\ history = { }
    /\ NoUploads
    /\ NoJobs

CallCalculateOverallScore ==
    /\ pc = "args"
    /\ overall_score' = calculate_overall_score(section_scores, keywords_found, format_score)
    /\ pc' = "scored"
    /\ UNCHANGED << catalog, text, section_scores, keywords_found, format_score,
                    sections_detected, candidates, suggestions, history, upload_vars, compile_vars >>

CallGenerateSuggestions ==
    /\ pc = "args"
    /\ candidates' = suggestion_candidates(section_scores, keywords_found, format_score)
    /\ suggestions' = generate_suggestions(section_scores, keywords_found, format_score)
    /\ pc' = "suggested"
    /\ UNCHANGED << catalog, text, section_scores, keywords_found, format_score,
                    sections_detected, overall_score, history, upload_vars, compile_vars >>

NextPure == CallCalculateOverallScore \/ CallGenerateSuggestions

SpecPure == InitPure /\ [][NextPure]_vars

----------------------------------------------------------------------------
(* Properties of analyze_resume (checked under Spec).                      *)

HighTitles7 ==
    << "Add Contact Info Section", "Add Professional Summary Section",
       "Add Experience Section", "Add Education Section", "Add Skills Section",
       "Add Projects Section", "Add Certifications Section" >>

Titles(s) == [ i \in 1..Len(s) |-> s[i].title ]

\* C1: for every input text the returned analysis has overall_score and
\* format_score in 0..100, every section score in 0..100, sections_detected in
\* 0..7 and at most 8 suggestions.
C1_ResultRanges ==
    pc = "done" =>
        /\ overall_score \in 0..100
        /\ format_score \in 0..100
        /\ \A i \in 1..Len(section_scores) : section_scores[i][2] \in 0..100
        /\ sections_detected \in 0..7
        /\ Len(suggestions) <= 8

\* C1 witness: an analysis in which a section reaches the upper end of its range
\* and the suggestion list is full.
C1_Witness ==
    /\ pc = "done"
    /\ \E i \in 1..Len(section_scores) : section_scores[i][2] = 100
    /\ Len(suggestions) = 8
    /\ overall_score > 0

\* C2: on the empty string all seven section scores are 0, keywords_found,
\* format_score, sections_detected and overall_score are 0, and there are
\* exactly 8 suggestions.
C2_EmptyText ==
    (pc = "done" /\ text = << >>) =>
        /\ Keys(section_scores) = SectionNames
        /\ \A i \in 1..Len(section_scores) : section_scores[i][2] = 0
        /\ keywords_found = 0
        /\ format_score = 0
        /\ sections_detected = 0
        /\ overall_score = 0
        /\ Len(suggestions) = 8

\* C2 witness: the analysis of the empty string has returned.
C2_Witness == pc = "done" /\ text = << >> /\ Len(section_scores) = 7

\* C4 as stated: adding a@b.co to the empty text raises the contact_info score by
\* exactly 10 and format_score by exactly 20, every other output field unchanged.
C4_Original ==
    (pc = "done" /\ text = F_Email) =>
        /\ Get(section_scores, "contact_info") = Get(analyze_sections(<< >>), "contact_info") + 10
        /\ format_score = analyze_format(<< >>) + 20
        /\ \A i \in 1..Len(section_scores) :
             section_scores[i][1] # "contact_info"
                 => section_scores[i][2] = Get(analyze_sections(<< >>), section_scores[i][1])
        /\ keywords_found = count_keywords(<< >>)
        /\ sections_detected = 0
        /\ overall_score = 0
        /\ suggestions = generate_suggestions(analyze_sections(<< >>), 0, 0)

\* C4 amended: adding a@b.co to the empty text leaves the contact_info score at 0
\* (no contact_info pattern matches, so the email bonus is never applied), raises
\* format_score by exactly 20 and with it overall_score from 0 to 4; the section
\* scores, keywords_found, sections_detected and the suggestions are unchanged.
C4_EmailOnly ==
    (pc = "done" /\ text = F_Email) =>
        /\ Get(section_scores, "contact_info") = 0
        /\ section_scores = analyze_sections(<< >>)
        /\ format_score = analyze_format(<< >>) + 20
        /\ overall_score = calculate_overall_score(analyze_sections(<< >>), 0, 0) + 4
        /\ overall_score = 4
        /\ keywords_found = count_keywords(<< >>)
        /\ sections_detected = 0
        /\ suggestions = generate_suggestions(analyze_sections(<< >>), 0, 0)

\* C4 witness: the analysis of the text a@b.co has returned and credited the email.
C4_Witness == pc = "done" /\ text = F_Email /\ format_score = 20

\* C5 as stated: the text "Python, Java, React, react, PYTHON" yields
\* keywords_found = 2.
C5_Original == (pc = "done" /\ text = F_Keywords) => keywords_found = 2

\* C5 amended: count_keywords counts each catalog keyword at most once whatever
\* its case and its number of occurrences (it is the number of catalog entries
\* that are substrings of the lowercased text), and for the text
\* "Python, Java, React, react, PYTHON" it returns 3 (python, java, react).
C5_DistinctKeywords ==
    pc = "done" =>
        /\ keywords_found =
               Cardinality({ k \in 1..Len(tech_keywords) : Contains(Lower(text), tech_keywords[k]) })
        /\ keywords_found <= Len(tech_keywords)
        /\ (text = F_Keywords => keywords_found = 3)

\* C5 witness: the five-word text has been analysed and three keywords counted.
C5_Witness == pc = "done" /\ text = F_Keywords /\ keywords_found = 3

\* whether some pattern of the catalog section matches the lowercased text
C7_Detected(section) ==
    \E k \in 1..Len(Get(section_patterns, section)) :
        Contains(Lower(text), Get(section_patterns, section)[k])

\* the number of words of the list that occur in the lowercased text
C7_Distinct(words) == Cardinality({ w \in { words[i] : i \in 1..Len(words) } : Contains(Lower(text), w) })

B2I(b) == IF b THEN 1 ELSE 0

\* the quality bonus of a section as C7 states it
C7_Bonus(section) ==
    CASE section = "contact_info" ->
             10 * B2I(SearchEmail(text)) + 10 * B2I(SearchPhone(text))
           + 10 * B2I(Contains(Lower(text), LinkedinWord))
           + 10 * B2I(Contains(Lower(text), GithubWord))
      [] section = "skills"     -> Min(5 * C7_Distinct(InitTechKeywords), 40)
      [] section = "experience" ->
             15 * B2I(SearchBulletPoints(text)) + 15 * B2I(SearchDates(text))
           + Min(2 * C7_Distinct(action_verbs), 10)
      [] section = "education"  -> Min(5 * C7_Distinct(education_keywords), 40)
      [] section \in { "professional_summary", "projects", "certifications" } -> 0

\* C7: analyze_sections returns exactly one entry for each of the 7 catalog
\* sections; an entry is 0 if no pattern of the section matches and otherwise
\* min(60 + bonus, 100); professional_summary, projects and certifications
\* score exactly 60 whenever detected.
C7_SectionScores ==
    pc = "done" =>
        /\ Len(section_scores) = 7
        /\ Keys(section_scores) = SectionNames
        /\ \A i \in 1..Len(section_scores) :
             LET section == section_scores[i][1]
                 score == section_scores[i][2]
             IN  /\ score = IF C7_Detected(section) THEN Min(60 + C7_Bonus(section), 100) ELSE 0
                 /\ section \in { "professional_summary", "projects", "certifications" }
                        => score \in { 0, 60 }

\* C7 witness: the four sections with a bonus rule are detected with a bonus, and
\* a section without one is detected.
C7_Witness ==
    /\ pc = "done"
    /\ Get(section_scores, "contact_info") > 60
    /\ Get(section_scores, "skills") > 60
    /\ Get(section_scores, "experience") > 60
    /\ Get(section_scores, "education") > 60
    /\ Get(section_scores, "projects") = 60

\* the four indicator credits of analyze_format as C10 states them
C10_Indicators ==
      25 * B2I(SearchBulletPoints(text)) + 25 * B2I(SearchDates(text))
    + 20 * B2I(SearchEmail(text)) + 20 * B2I(SearchPhone(text))

\* C10: analyze_format returns 25*[bullet] + 25*[date] + 20*[email] + 20*[phone]
\* + 10*[200 <= word count <= 800], both bounds inclusive (199 and 801 words earn
\* no length bonus, 200 and 800 do); the sum is at most 90 without the length
\* bonus and at most 100 with it, so the clamp never changes it.
C10_FormatScore ==
    pc = "done" =>
        /\ format_score = C10_Indicators
                          + 10 * B2I(200 <= WordCount(text) /\ WordCount(text) <= 800)
        /\ C10_Indicators <= 90
        /\ WordCount(text) \in { 199, 801 } => format_score = C10_Indicators
        /\ WordCount(text) \in { 200, 800 } => format_score = C10_Indicators + 10

\* C10 witness: a text of exactly 800 words with all four indicators scores 100.
C10_Witness == pc = "done" /\ WordCount(text) = 800 /\ format_score = 100

\* a phone number in the "(NNN) NNN-NNNN" style at position i of t: a
\* parenthesised area code, an optional whitespace after it, three digits, a
\* dash or a dot, four digits, not run on into a further word character
C11_ParenPhoneAt(t, i) ==
    /\ InClass(t, i, { "(" })
    /\ DigitsAt(t, i + 1, 3)
    /\ InClass(t, i + 4, { ")" })
    /\ \E s \in OptionalAt(t, i + 5, Whitespace) :
         /\ DigitsAt(t, i + 5 + s, 3)
         /\ InClass(t, i + 8 + s, { "-", "." })
         /\ DigitsAt(t, i + 9 + s, 4)
         /\ ~InClass(t, i + 13 + s, WordChars)

C11_HasParenPhone(t) == \E i \in 1..Len(t) : C11_ParenPhoneAt(t, i)

\* C11 as stated: a phone number in the "(NNN) NNN-NNNN" style, also at the start
\* of the text or after whitespace or punctuation, is recognised as phone-shaped:
\* analyze_format credits it with +20 and a detected contact_info section with
\* +10, as for NNN-NNN-NNNN and NNN.NNN.NNNN.
C11_ParenPhoneRecognised ==
    (pc = "done" /\ C11_HasParenPhone(text)) =>
        /\ format_score =
               25 * B2I(SearchBulletPoints(text)) + 25 * B2I(SearchDates(text))
             + 20 * B2I(SearchEmail(text)) + 20
             + 10 * B2I(MinWords <= WordCount(text) /\ WordCount(text) <= MaxWords)
        /\ C7_Detected("contact_info") =>
               Get(section_scores, "contact_info") =
                   Min(60 + 10 * B2I(SearchEmail(text)) + 10
                          + 10 * B2I(Contains(Lower(text), LinkedinWord))
                          + 10 * B2I(Contains(Lower(text), GithubWord)), 100)

\* the sections analyze_sections scores without a quality bonus
C17_BaseOnlySections == { "professional_summary", "projects", "certifications" }

\* C17: for every input text analyze_resume returns between 5 and 8
\* suggestions: professional_summary, projects and certifications score 0 or
\* exactly 60 (never 70 or more), so each of them always contributes a section
\* suggestion, and every high-priority candidate (the "Add ... Section" items and
\* "Add More Technical Keywords") sits at position 8 or earlier in generation
\* order and is not removed by the truncation to 8.
C17_FiveToEight ==
    pc = "done" =>
        /\ Len(suggestions) >= 5
        /\ Len(suggestions) <= 8
        /\ \A section \in C17_BaseOnlySections :
             LET score == Get(section_scores, section)
             IN  /\ score \in { 0, 60 }
                 /\ \E i \in 1..Len(suggestions) :
                      suggestions[i] = IF score = 0 THEN AddSection(section)
                                       ELSE ImproveSection(section)
        /\ \A i \in 1..Len(candidates) :
             candidates[i].priority = "high"
                 => /\ i <= 8
                    /\ i <= Len(suggestions)
                    /\ suggestions[i] = candidates[i]
                    /\ \/ candidates[i] = AddKeywords
                       \/ \E k \in 1..Len(SectionNames) : candidates[i] = AddSection(SectionNames[k])

\* C17 witness: an analysis that returns exactly 5 suggestions: contact_info,
\* experience, education and skills score 70 or more, 5 keywords are found and
\* the format score is at least 60, so only the three base-only sections and
\* the two general suggestions remain.
C17_Witness ==
    /\ pc = "done"
    /\ Len(suggestions) = 5
    /\ Len(candidates) = 5
    /\ keywords_found >= 5
    /\ format_score >= 60
    /\ \E i \in 1..3 : suggestions[i].priority = "high"

----------------------------------------------------------------------------
(* Properties of calculate_overall_score and generate_suggestions (checked *)
(* under SpecPure).                                                        *)

\* the << title, priority >> pairs of a suggestion list
TitlePriority(s) == [ i \in 1..Len(s) |-> << s[i].title, s[i].priority >> ]

IsGeneral(s) == s.title \in { "Quantify Your Achievements", "Tailor for Each Application" }

\* C3: the returned list is exactly the first min(8, n) entries of the n-entry
\* candidate sequence in generation order; when all 7 sections score 0 and both
\* the keyword and the format suggestion are triggered, the 8 kept entries are the
\* 7 "Add ... Section" suggestions followed by "Add More Technical Keywords", and
\* neither general suggestion is in the output.
C3_PositionalTruncation ==
    pc = "suggested" =>
        /\ Len(suggestions) = Min(8, Len(candidates))
        /\ \A i \in 1..Len(suggestions) : suggestions[i] = candidates[i]
        /\ ( /\ Len(section_scores) = 7
             /\ \A i \in 1..7 : section_scores[i][2] = 0
             /\ keywords_found < 5
             /\ format_score < 60 )
           => /\ Titles(suggestions) = HighTitles7 \o << "Add More Technical Keywords" >>
              /\ \A i \in 1..Len(suggestions) : ~IsGeneral(suggestions[i])

\* C3 witness: all 7 sections score 0 and the keyword and format suggestions are
\* triggered: 11 candidates, 8 returned.
C3_Witness ==
    /\ pc = "suggested"
    /\ Len(section_scores) = 7
    /\ \A i \in 1..7 : section_scores[i][2] = 0
    /\ keywords_found < 5
    /\ format_score < 60
    /\ Len(candidates) = 11
    /\ Len(suggestions) = 8

\* sum of the scores of a section-score map
C6_Sum == SumSeq(Values(section_scores))

C6_KeywordScore == Min(keywords_found * 5, 100)

\* C6: calculate_overall_score returns the truncation of
\* (sum/n)*0.5 + keywordScore*0.3 + formatScore*0.2, n the number of entries of
\* the map and keywordScore = min(keywordsFound*5, 100); for a 7-entry map that
\* is floor((5*sum + 21*keywordScore + 14*formatScore) / 70).
C6_OverallFormula ==
    pc = "scored" =>
        LET n == Len(section_scores)
        IN  /\ overall_score =
                 (5 * C6_Sum + 3 * n * C6_KeywordScore + 2 * n * format_score) \div (10 * n)
            /\ n = 7 => overall_score =
                            (5 * C6_Sum + 21 * C6_KeywordScore + 14 * format_score) \div 70

\* C6 witness: a map that has not 7 entries, a keyword count past the cap of the
\* keyword score, and a weighted sum that is not an integer.
C6_Witness ==
    /\ pc = "scored"
    /\ Len(section_scores) # 7
    /\ keywords_found * 5 > 100
    /\ (5 * C6_Sum + 3 * Len(section_scores) * C6_KeywordScore
          + 2 * Len(section_scores) * format_score) % (10 * Len(section_scores)) # 0
    /\ overall_score > 0

\* the section part of the candidates as C8 states it
C8_SectionPart ==
    LET listed == SelectSeq(section_scores, LAMBDA e : e[2] < 70)
    IN  [ i \in 1..Len(listed) |->
            IF listed[i][2] = 0
            THEN << "Add " \o title(listed[i][1]) \o " Section", "high" >>
            ELSE << "Improve " \o title(listed[i][1]) \o " Section", "medium" >> ]

\* C8: before truncation the candidates are, in this order: per catalog section in
\* catalog order a high "Add <Section> Section" if its score is 0, else a medium
\* "Improve <Section> Section" if its score is below 70, else nothing; then a
\* high "Add More Technical Keywords" iff keywordsFound < 5; then a medium
\* "Improve Resume Formatting" iff formatScore < 60; then always "Quantify Your
\* Achievements" (medium) and "Tailor for Each Application" (low).
C8_GenerationOrder ==
    pc = "suggested" =>
        TitlePriority(candidates) =
               C8_SectionPart
            \o (IF keywords_found < 5 THEN << << "Add More Technical Keywords", "high" >> >> ELSE << >>)
            \o (IF format_score < 60 THEN << << "Improve Resume Formatting", "medium" >> >> ELSE << >>)
            \o << << "Quantify Your Achievements", "medium" >>,
                  << "Tailor for Each Application", "low" >> >>

\* C8 witness: a map with an absent section, a section below 70 and a section at
\* 70, with the keyword suggestion triggered and the format suggestion not.
C8_Witness ==
    /\ pc = "suggested"
    /\ \E i, j, k \in 1..Len(section_scores) :
         section_scores[i][2] = 0 /\ section_scores[j][2] = 68 /\ section_scores[k][2] = 70
    /\ keywords_found < 5
    /\ format_score >= 60

HasLow(s) == \E i \in 1..Len(s) : s[i].priority = "low"

\* C9 as stated (its universal half): the low-priority general suggestion is
\* always kept in the returned list.
C9_Original == pc = "suggested" => HasLow(suggestions)

\* C9 amended: truncation is by position, but every high-priority candidate sits
\* at position 8 or earlier and is never dropped; the low-priority general
\* suggestion is the last candidate and is kept exactly when there are at most 8
\* candidates, so no input keeps a low-priority suggestion while dropping a
\* high-priority one.
C9_HighNeverDropped ==
    pc = "suggested" =>
        /\ \A i \in 1..Len(candidates) :
             candidates[i].priority = "high"
                 => i <= 8 /\ i <= Len(suggestions) /\ suggestions[i] = candidates[i]
        /\ candidates[Len(candidates)].priority = "low"
        /\ HasLow(suggestions) <=> Len(candidates) <= 8

\* C9 witness: more than 8 candidates: the low-priority suggestion is dropped and
\* all high-priority ones are kept.
C9_Witness ==
    /\ pc = "suggested"
    /\ Len(candidates) > 8
    /\ ~HasLow(suggestions)
    /\ \E i \in 1..Len(suggestions) : suggestions[i].priority = "high"

----------------------------------------------------------------------------
(* The upload endpoint (src/main.py, upload_resume) and the PDF text       *)
(* extraction (src/services/pdf_processor.py).  A request is a coroutine:  *)
(* it runs without interruption between two await points, and the file    *)
(* operations of aiofiles run while it is suspended.  The uploads          *)
(* directory maps a filename to the inode its path names (0: no such       *)
(* path); an inode is named after the request whose open created it.      *)

MaxRequests == 2

MaxUploadSize == 5 * 1024 * 1024

PdfContentType == "application/pdf"

ContentTypes == { PdfContentType, "text/plain" }

Sizes == { MaxUploadSize, MaxUploadSize + 1 }

Filenames == { "a.pdf", "b.pdf" }

\* the bytes of a file: a PDF document with the text of its pages, or bytes
\* that PyPDF2 cannot read
Pdf(t) == [ kind |-> "pdf", text |-> t ]

NotAPdf == [ kind |-> "garbage", text |-> << >> ]

EmptyFile == [ kind |-> "empty", text |-> << >> ]

UploadContents == { Pdf(F_Keywords), Pdf(F_Email), Pdf(F_Bullet), NotAPdf }

\* re.sub(r'\s+', ' ', text): every run of whitespace becomes one space
RECURSIVE CollapseWhitespace(_)
CollapseWhitespace(t) ==
    IF t = << >> THEN << >>
    ELSE IF Head(t) \in Whitespace
         THEN IF Len(t) > 1 /\ t[2] \in Whitespace
              THEN CollapseWhitespace(Tail(t))
              ELSE << " " >> \o CollapseWhitespace(Tail(t))
         ELSE << Head(t) >> \o CollapseWhitespace(Tail(t))

\* the characters re.sub(r'[^\w\s@.,()-]', '', text) keeps
KeptChars == WordChars \cup Whitespace \cup { "@", ".", ",", "(", ")", "-" }

RemoveSpecial(t) == SelectSeq(t, LAMBDA c : c \in KeptChars)

\* str.strip()
RECURSIVE strip(_)
strip(t) ==
    IF t = << >> THEN << >>
    ELSE IF Head(t) \in Whitespace THEN strip(Tail(t))
    ELSE IF t[Len(t)] \in Whitespace THEN strip(SubSeq(t, 1, Len(t) - 1))
    ELSE t

clean_text(t) == strip(RemoveSpecial(CollapseWhitespace(t)))

\* PDFProcessor.extract_text on the bytes the path names (NoFile: open raises);
\* every exception is swallowed and gives the empty string
NoFile == [ kind |-> "absent", text |-> << >> ]

extract_text(bytes) ==
    IF bytes.kind = "pdf" THEN clean_text(bytes.text) ELSE << >>

\* ats_scorer.analyze_resume(extracted_text, file.filename)
analyze_resume(t, filename) ==
    LET scores == analyze_sections(t)
        found == count_keywords(t)
        fmt == analyze_format(t)
    IN  [ filename          |-> filename,
          overall_score     |-> calculate_overall_score(scores, found, fmt),
          section_scores    |-> scores,
          keywords_found    |-> found,
          sections_detected |-> Cardinality({ i \in 1..Len(scores) : scores[i][2] > 0 }),
          format_score      |-> fmt,
          suggestions       |-> generate_suggestions(scores, found, fmt) ]

\* exceptions and responses
HTTPException(status_code, detail) ==
    [ type |-> "HTTPException", status_code |-> status_code, detail |-> detail ]

OSError == [ type |-> "OSError", status_code |-> 0, detail |-> "" ]

NoError == [ type |-> "None", status_code |-> 0, detail |-> "" ]

NoResponse == [ status |-> 0 ]

\* 200 with the ResumeAnalysis as body
Ok(analysis) == [ status |-> 200, body |-> analysis ]

\* FastAPI's answer to a raised HTTPException; the detail built at line 103 is
\* "Error processing resume: " followed by str(e), kept here as the exception e
ErrorResponse(status_code, prefix, e) ==
    [ status |-> status_code, detail |-> prefix, cause |-> e ]

ProcessingError(e) == ErrorResponse(500, "Error processing resume: ", e)

NewRequest(content_type, size, filename, content) ==
    [ content_type |-> content_type,
      size         |-> size,
      filename     |-> filename,
      content      |-> content,
      at           |-> "start",      \* where the coroutine is suspended
      has_path     |-> FALSE,        \* 'file_path' in locals()
      fd           |-> 0,            \* the inode the open file object writes to
      error        |-> NoError,      \* an exception raised inside `async with`
      created      |-> FALSE,        \* the request's open has created or truncated the file
      response     |-> NoResponse ]

UploadRequests ==
    { NewRequest(ct, sz, fn, c) :
        ct \in ContentTypes, sz \in Sizes, fn \in Filenames, c \in UploadContents }

\* the bytes os.path / open find at uploads/<filename>
FileAt(filename) ==
    IF uploads[filename] = 0 THEN NoFile ELSE inodes[uploads[filename]]

\* os.path.exists(file_path)
exists(filename) == uploads[filename] # 0

InitUpload(n) ==
    /\ InitCatalog
    /\ text = << >>
    /\ pc = "serving"
    /\ NoCall
    /\ history = { }
    /\ request \in [ 1..n -> UploadRequests ]
    /\ uploads = [ fn \in Filenames |-> 0 ]
    /\ NoJobs
    /\ inodes = [ i \in 1..MaxRequests |-> NoFile ]

\* an except clause that answers without removing the saved file
Except_NoCleanup(r, e) ==
    /\ uploads' = uploads
    /\ request' = [ request EXCEPT ![r].response = ProcessingError(e),
                                   ![r].at = "done" ]

\* the except clause (lines 98-103) on exception e, with the uploads directory
\* as it is when the clause runs
Except(r, e) ==
    /\ uploads' = IF request[r].has_path /\ exists(request[r].filename)
                  THEN [ uploads EXCEPT ![request[r].filename] = 0 ]
                  ELSE uploads
    /\ request' = [ request EXCEPT ![r].response = ProcessingError(e),
                                   ![r].at = "done" ]

\* lines 67-78: validation, then the request for aiofiles.open
Validate(r) ==
    /\ request[r].at = "start"
    /\ IF request[r].content_type # PdfContentType
       THEN Except(r, HTTPException(400, "Only PDF files are supported"))
       ELSE IF request[r].size > MaxUploadSize
       THEN Except(r, HTTPException(400, "File size must be less than 5MB"))
       ELSE /\ request' = [ request EXCEPT ![r].has_path = TRUE, ![r].at = "opening" ]
            /\ uploads' = uploads
    /\ UNCHANGED << scorer_vars, compile_vars, inodes >>

\* line 78: open(file_path, 'wb') creates the file or truncates the one there
Open(r) ==
    /\ request[r].at = "opening"
    /\ LET fn == request[r].filename
           ino == IF exists(fn) THEN uploads[fn] ELSE r
       IN  /\ uploads' = [ uploads EXCEPT ![fn] = ino ]
           /\ inodes' = [ inodes EXCEPT ![ino] = EmptyFile ]
           /\ request' = [ request EXCEPT ![r].fd = ino, ![r].created = TRUE,
                                          ![r].at = "writing" ]
    /\ UNCHANGED << scorer_vars, compile_vars >>

\* line 78: open raises (the operating system refuses the path)
OpenFails(r) ==
    /\ request[r].at = "opening"
    /\ request' = [ request EXCEPT ![r].error = OSError, ![r].at = "resuming" ]
    /\ UNCHANGED << scorer_vars, compile_vars, uploads, inodes >>

\* lines 79-80: content = await file.read(); await f.write(content)
Write(r) ==
    /\ request[r].at = "writing"
    /\ inodes' = [ inodes EXCEPT ![request[r].fd] = request[r].content ]
    /\ request' = [ request EXCEPT ![r].at = "closing" ]
    /\ UNCHANGED << scorer_vars, compile_vars, uploads >>

\* lines 79-80: the read or the write raises; `async with` still closes the file
WriteFails(r) ==
    /\ request[r].at = "writing"
    /\ request' = [ request EXCEPT ![r].error = OSError, ![r].at = "closing" ]
    /\ UNCHANGED << scorer_vars, compile_vars, uploads, inodes >>

\* the end of `async with`: the file object is closed
Close(r) ==
    /\ request[r].at = "closing"
    /\ request' = [ request EXCEPT ![r].fd = 0, ![r].at = "resuming" ]
    /\ UNCHANGED << scorer_vars, compile_vars, uploads, inodes >>

\* lines 84-103, which hold no await: extraction, scoring, removal and the
\* response, or the except clause
Finish(r) ==
    /\ request[r].at = "resuming"
    /\ IF request[r].error # NoError
       THEN Except(r, request[r].error)
       ELSE LET extracted_text == extract_text(FileAt(request[r].filename))
            IN  IF extracted_text = << >>
                THEN Except(r, HTTPException(400, "Could not extract text from PDF"))
                ELSE /\ uploads' = [ uploads EXCEPT ![request[r].filename] = 0 ]
                     /\ request' = [ request EXCEPT
                            ![r].response = Ok(analyze_resume(extracted_text, request[r].filename)),
                            ![r].at = "done" ]
    /\ UNCHANGED << scorer_vars, compile_vars, inodes >>

upload_resume(r) ==
    \/ Validate(r)
    \/ Open(r)
    \/ OpenFails(r)
    \/ Write(r)
    \/ WriteFails(r)
    \/ Close(r)
    \/ Finish(r)

NextUpload == \E r \in DOMAIN request : upload_resume(r)

\* concurrent requests
SpecUpload == InitUpload(MaxRequests) /\ [][NextUpload]_vars

\* one request at a time
SpecUploadOne == InitUpload(1) /\ [][NextUpload]_vars

----------------------------------------------------------------------------
(* Properties of repeated calls (checked under SpecCalls).                 *)

\* C12: analyze_resume is deterministic and leaves the pattern catalog unchanged:
\* after any sequence of earlier calls on arbitrary texts, a call returns the same
\* result (all score fields and the suggestion sequence) as every earlier call
\* with the same text, and section_patterns, tech_keywords and format_indicators
\* have the values set at construction.
C12_Deterministic ==
    /\ section_patterns = InitSectionPatterns
    /\ tech_keywords = InitTechKeywords
    /\ format_indicators = InitFormatIndicators
    /\ pc = "done" => \A h \in history : h[1] = text => h[2] = Result

\* C12 witness: a call has returned whose text was analysed before, with calls on
\* other texts in between, and the result is not the one of the empty analysis.
C12_Witness ==
    /\ pc = "done"
    /\ \E h \in history : h[1] = text
    /\ Cardinality(history) >= 3
    /\ keywords_found > 0
    /\ Len(suggestions) < 8

----------------------------------------------------------------------------
(* Properties of upload_resume (checked under SpecUploadOne and            *)
(* SpecUpload).                                                            *)

\* the request's own upload passes every validation of the handler
ValidUpload(r) ==
    /\ request[r].content_type = PdfContentType
    /\ request[r].size <= MaxUploadSize
    /\ extract_text(request[r].content) # << >>

\* C13 as stated: upload_resume answers a request that fails its validation
\* (content type other than application/pdf, size above 5 MB, or empty extracted
\* text) with status 400 and the corresponding detail message; status 500 is
\* produced only for unexpected processing errors.
C13_ValidationAnswers400 ==
    \A r \in DOMAIN request :
        request[r].at = "done" =>
            /\ request[r].content_type # PdfContentType
                   => /\ request[r].response.status = 400
                      /\ request[r].response.detail = "Only PDF files are supported"
            /\ (request[r].content_type = PdfContentType /\ request[r].size > MaxUploadSize)
                   => /\ request[r].response.status = 400
                      /\ request[r].response.detail = "File size must be less than 5MB"
            /\ ( /\ request[r].content_type = PdfContentType
                 /\ request[r].size <= MaxUploadSize
                 /\ request[r].error = NoError
                 /\ extract_text(request[r].content) = << >> )
                   => /\ request[r].response.status = 400
                      /\ request[r].response.detail = "Could not extract text from PDF"
            /\ request[r].response.status = 500 => request[r].error # NoError

\* C15: on every path through a single upload_resume request (successful
\* analysis, empty extracted text, or an exception raised while saving), the file
\* the request saved at uploads/<filename> has been removed by the time the
\* handler returns or raises; a request rejected before saving creates no file.
C15_FileRemoved ==
    \A r \in DOMAIN request :
        /\ request[r].at = "done" => \A fn \in Filenames : ~exists(fn)
        /\ ~request[r].has_path => ~request[r].created /\ \A fn \in Filenames : ~exists(fn)

\* C15 witness: a request that saved its file and then failed (empty extracted
\* text or an error while writing) has ended with the file removed.
C15_Witness ==
    \E r \in DOMAIN request :
        /\ request[r].at = "done"
        /\ request[r].created
        /\ request[r].response.status = 500
        /\ ~exists(request[r].filename)

\* C14 as stated: concurrent upload_resume requests do not interfere under any
\* interleaving of their await points, also when two requests carry the same
\* filename: a request that succeeds returns the analysis of the text of its own
\* uploaded file, no request whose own upload is valid fails, and the file a
\* request has written is still there with its content until the request itself
\* removes it.
C14_NoInterference ==
    \A r \in DOMAIN request :
        /\ (request[r].at = "done" /\ request[r].response.status = 200)
               => request[r].response.body =
                      analyze_resume(extract_text(request[r].content), request[r].filename)
        /\ (request[r].at = "done" /\ ValidUpload(r) /\ request[r].error = NoError)
               => request[r].response.status = 200
        /\ (request[r].at \in { "closing", "resuming" } /\ request[r].error = NoError)
               => FileAt(request[r].filename) = request[r].content

----------------------------------------------------------------------------
(* The compile endpoint (src/main.py, compile_resume and                   *)
(* compile_latex_to_pdf).  Each request works in its own temporary         *)
(* directory, held by `with tempfile.TemporaryDirectory()`; the response   *)
(* object the handler returns is sent by the framework after the handler   *)
(* has returned.                                                           *)

MaxJobs == 2

\* resume_data['personal']['name']: missing or given
Names == { "", "Ada Lovelace" }

NoDir == { "no such directory" }

\* JSONResponse(status_code, content)
JSONResponse(status_code, content) ==
    [ kind |-> "json", status_code |-> status_code, content |-> content, path |-> "" ]

\* FileResponse(pdf_path, media_type='application/pdf', ...)
FileResponse(pdf_path) ==
    [ kind |-> "file", status_code |-> 200, content |-> "application/pdf", path |-> pdf_path ]

NewJob(name) ==
    [ name     |-> name,
      at       |-> "start",     \* where the coroutine is suspended
      temp_dir |-> 0,           \* the directory of the with block (0: none)
      i        |-> 0,           \* the loop variable of compile_latex_to_pdf
      response |-> NoResponse,  \* the response object the handler returned
      sent     |-> NoResponse ] \* what the client received

InitCompile ==
    /\ InitCatalog
    /\ text = << >>
    /\ pc = "serving"
    /\ NoCall
    /\ history = { }
    /\ NoUploads
    /\ job \in [ 1..MaxJobs -> { NewJob(name) : name \in Names } ]
    /\ tmp = [ d \in 1..MaxJobs |-> NoDir ]

\* the handler returns the response; leaving the with block removes temp_dir
\* and everything in it
Return(j, response) ==
    /\ job' = [ job EXCEPT ![j].response = response, ![j].at = "returned" ]
    /\ tmp' = IF job[j].temp_dir = 0 THEN tmp ELSE [ tmp EXCEPT ![job[j].temp_dir] = NoDir ]

\* lines 154-174: the fallback answer with the LaTeX source
compile_error(j) == Return(j, JSONResponse(200, "compilation_failed"))

\* lines 110-144 and 191-198: validation, LaTeX source, the temporary directory
\* with resume.tex and the logo, up to the start of `pdflatex --version`
Begin(j) ==
    /\ job[j].at = "start"
    /\ IF job[j].name = ""
       THEN Return(j, JSONResponse(500, "Name is required"))
       ELSE /\ job' = [ job EXCEPT ![j].temp_dir = j, ![j].at = "checking" ]
            /\ tmp' = [ tmp EXCEPT ![j] = { "resume.tex", "NSUT_logo.png" } ]
    /\ UNCHANGED << scorer_vars, upload_vars >>

\* lines 198-207: `pdflatex --version` succeeds, or pdflatex is not installed
CheckPdflatex(j) ==
    /\ job[j].at = "checking"
    /\ \E installed \in BOOLEAN :
         IF installed
         THEN /\ job' = [ job EXCEPT ![j].at = "running" ]
              /\ tmp' = tmp
         ELSE compile_error(j)
    /\ UNCHANGED << scorer_vars, upload_vars >>

\* lines 210-243 and 145-152: one run of pdflatex, which may write resume.pdf and
\* may fail; after the second run the existence check and the FileResponse
RunPdflatex(j) ==
    /\ job[j].at = "running"
    /\ \E returncode \in { 0, 1 }, written \in BOOLEAN :
         LET files == IF written THEN tmp[j] \cup { "resume.pdf" } ELSE tmp[j]
         IN  IF job[j].i = 0
             THEN /\ job' = [ job EXCEPT ![j].i = 1 ]
                  /\ tmp' = [ tmp EXCEPT ![j] = files ]
             ELSE IF returncode = 0 /\ "resume.pdf" \in files
                  THEN Return(j, FileResponse(<< j, "resume.pdf" >>))
                  ELSE compile_error(j)
    /\ UNCHANGED << scorer_vars, upload_vars >>

\* the framework sends the returned response; a FileResponse reads the file at
\* its path now, and a missing file is an error instead of the PDF
SendResponse(j) ==
    /\ job[j].at = "returned"
    /\ job' = [ job EXCEPT
           ![j].at = "sent",
           ![j].sent =
               IF job[j].response.kind = "file"
                  /\ job[j].response.path[2] \notin tmp[job[j].response.path[1]]
               THEN JSONResponse(500, "Internal Server Error")
               ELSE job[j].response ]
    /\ UNCHANGED << scorer_vars, upload_vars, tmp >>

compile_resume(j) ==
    \/ Begin(j)
    \/ CheckPdflatex(j)
    \/ RunPdflatex(j)
    \/ SendResponse(j)

NextCompile == \E j \in DOMAIN job : compile_resume(j)

SpecCompile == InitCompile /\ [][NextCompile]_vars

\* C16 as stated: when compile_resume compiles successfully and returns the PDF
\* as a file response, the PDF at the returned path still exists when the
\* response body is sent: the temporary directory holding resume.pdf is not
\* deleted before the response has been delivered.
C16_PdfExistsWhenSent ==
    \A j \in DOMAIN job :
        /\ (job[j].at = "returned" /\ job[j].response.kind = "file")
               => /\ tmp[job[j].response.path[1]] # NoDir
                  /\ job[j].response.path[2] \in tmp[job[j].response.path[1]]
        /\ (job[j].at = "sent" /\ job[j].response.kind = "file")
               => job[j].sent = job[j].response

====
